---------------------------- MODULE Spec2Model ----------------------------
(***************************************************************************)
(* revlimiter: the Throttler of src/revlimiter.py, a token-bucket          *)
(* admission gate over a two-level dict of buckets, with a periodic         *)
(* mark-and-sweep task.                                                     *)
(*                                                                         *)
(* Numbers.  num_tokens and fill_rate are real numbers in the program.      *)
(* Here a token count is an integer number of 1/Unit tokens, so the "- 1"   *)
(* of _consume_token is "- Unit"; fill_rate is in 1/Unit tokens per clock   *)
(* tick, and a timestamp is an integer number of ticks.                     *)
(*                                                                         *)
(* Scheduling.  Two next-state relations are given.  In Next every         *)
(* statement of a guarded section is a step of its own and any other        *)
(* coroutine may run between two steps, the one between the sampling of     *)
(* now and the acquisition of the lock included: mutual exclusion rests on  *)
(* writer_lock alone, whatever the scheduler.  Every run of the event loop  *)
(* is a run of Next with steps taken in a row, so what holds for Next       *)
(* holds for the server.  NextLoop is the scheduling of asyncio itself: a   *)
(* coroutine is left only at an await that suspends it, and there is none   *)
(* between the sampling of now and the end of the guarded section.  What    *)
(* is stated of timestamps in the order of the calls is stated of NextLoop. *)
(***************************************************************************)
EXTENDS Integers, FiniteSets, Sequences, TLC

\* ------------------------------------------------------------------ bounds
\* one token, in the model's token units (resolution of the real numbers)
Unit == 2
\* the wall clock runs over 0..MaxTime
MaxTime == 2

\* identifiers a request may carry
Requesters == {"alice", "bob"}
Resources == {"api"}
\* route configurations <<fill_rate, bucket_max>> of the valid domain
\* (fill_rate >= 0, bucket_max > 0): no refill and one token; half a token per
\* tick and one token; one token per tick and two tokens
Configs == {<<0, Unit>>, <<1, Unit>>, <<Unit, 2 * Unit>>}
\* a configuration file may hold any number
AnyConfigs == Configs \cup {<<-1, Unit>>, <<Unit, 0>>, <<0, -Unit>>}

\* a key the JSON body does not hold
Absent == "absent"
\* the JSON bodies a request may carry: each id is present or not, and
\* throttle_params is not there, is null, or is an object
Events == [requester_id : Requesters \cup {Absent},
           resource_id : Resources \cup {Absent},
           throttle_params : {Absent, "null", "object"}]

\* the handle_request coroutines that may be in flight at the same time
Handlers == {"h1", "h2"}

Max(a, b) == IF a >= b THEN a ELSE b
Min(a, b) == IF a <= b THEN a ELSE b

VARIABLES
    fill_rate,          \* Throttler._fill_rate
    bucket_max,         \* Throttler._bucket_max
    bucket_start,       \* Throttler._bucket_start
    resource_buckets,   \* Throttler._resource_buckets: outer key -> inner key -> item
    writer_lock,        \* Throttler._writer_lock: TRUE when locked
    clock,              \* time.time()
    req,                \* the handle_request coroutines
    cleaner,            \* the _clean_helper task of periodic_clean
    burst,              \* history: per item, the admits since _get_item created it
    admitted,           \* history: the keys _consume_token has decided on
    grants,             \* history: per key and timestamp, the admits allowed
    shadow,             \* history: the store of a Throttler given the same
                        \* admits and no sweep
    evicted             \* history: the keys whose bucket a sweep has removed

vars == <<fill_rate, bucket_max, bucket_start, resource_buckets, writer_lock,
          clock, req, cleaner, burst, admitted, grants, shadow, evicted>>

config == <<fill_rate, bucket_max, bucket_start>>
history == <<burst, admitted>>
\* kept by the runs of SpecLoop only
trace == <<grants, shadow, evicted>>

\* the keys a request may name
AllKeys == Requesters \X Resources
NoGrants == [k \in AllKeys |-> [t \in 0..MaxTime |-> 0]]

\* ------------------------------------------------------------------ state
IdleReq == [pc |-> "idle", requester_id |-> "", resource_id |-> "",
            now |-> 0, created |-> FALSE, has_capacity |-> FALSE]

SleepingCleaner == [pc |-> "sleep", now |-> 0]

\* mutant: _bucket_start = 0
ConstructStartEmpty(fr, bm) ==
    /\ fill_rate = fr
    /\ bucket_max = bm
    /\ bucket_start = 0
    /\ resource_buckets = << >>
    /\ writer_lock = FALSE

\* Throttler.__init__(fill_rate, bucket_max): no argument is validated
Construct(fr, bm) ==
    /\ fill_rate = fr
    /\ bucket_max = bm
    /\ bucket_start = bm
    /\ resource_buckets = << >>
    /\ writer_lock = FALSE

Init ==
    /\ \E c \in Configs : Construct(c[1], c[2])
    /\ clock = 0
    /\ req = [h \in Handlers |-> IdleReq]
    /\ cleaner = SleepingCleaner
    /\ burst = << >>
    /\ admitted = {}
    /\ grants = NoGrants
    /\ shadow = << >>
    /\ evicted = {}

InitAnyConfig ==
    /\ \E c \in AnyConfigs : Construct(c[1], c[2])
    /\ clock = 0
    /\ req = [h \in Handlers |-> IdleReq]
    /\ cleaner = SleepingCleaner
    /\ burst = << >>
    /\ admitted = {}
    /\ grants = NoGrants
    /\ shadow = << >>
    /\ evicted = {}

\* -------------------------------------------------------------- the store
HasOuter(buckets, o) == o \in DOMAIN buckets
HasItem(buckets, o, i) == HasOuter(buckets, o) /\ i \in DOMAIN buckets[o]

\* the keys (outer, inner) of the items held
Keys(buckets) == {k \in (DOMAIN buckets) \X (Requesters \cup Resources) :
                     k[2] \in DOMAIN buckets[k[1]]}

\* d[k] = v on a dict
Put(d, k, v) == [x \in (DOMAIN d) \cup {k} |-> IF x = k THEN v ELSE d[x]]

\* mutant: a new item starts empty
NewItemEmpty(now) == [last_access |-> now, num_tokens |-> 0]

NewItem(now) == [last_access |-> now, num_tokens |-> bucket_start]

\* mutant: the item is initialised whether or not the key is present
GetItemStoreReset(buckets, o, i, now) ==
    LET withOuter == IF HasOuter(buckets, o) THEN buckets ELSE Put(buckets, o, << >>)
    IN  Put(withOuter, o, Put(withOuter[o], i, NewItem(now)))

\* mutant: a missing outer key makes _get_item start the store afresh,
\* self._resource_buckets = {resource_id: {}}
GetItemStoreClobber(buckets, o, i, now) ==
    LET withOuter == IF HasOuter(buckets, o) THEN buckets ELSE [x \in {o} |-> << >>]
    IN  IF i \in DOMAIN withOuter[o]
            THEN withOuter
            ELSE Put(withOuter, o, Put(withOuter[o], i, NewItem(now)))

\* _get_item: the store after the call (the item is then buckets[o][i])
GetItemStore(buckets, o, i, now) ==
    LET withOuter == IF HasOuter(buckets, o) THEN buckets ELSE Put(buckets, o, << >>)
    IN  IF i \in DOMAIN withOuter[o]
            THEN withOuter
            ELSE Put(withOuter, o, Put(withOuter[o], i, NewItem(now)))

\* mutant: no min(bucket_max, ...)
RefillNoCap(item, now) ==
    LET delta == Max(0, fill_rate * (now - item.last_access))
    IN  [last_access |-> now, num_tokens |-> item.num_tokens + delta]

\* mutant: no max(0, ...)
RefillSignedDelta(item, now) ==
    LET delta == fill_rate * (now - item.last_access)
    IN  [last_access |-> now,
         num_tokens |-> Min(bucket_max, item.num_tokens + delta)]

\* mutant: the elapsed time is taken as a distance, abs(now - last_access)
RefillAbsDelta(item, now) ==
    LET elapsed == IF now >= item.last_access THEN now - item.last_access
                                               ELSE item.last_access - now
        delta == Max(0, fill_rate * elapsed)
    IN  [last_access |-> now,
         num_tokens |-> Min(bucket_max, item.num_tokens + delta)]

\* _update_item
Refill(item, now) ==
    LET delta == Max(0, fill_rate * (now - item.last_access))
    IN  [last_access |-> now,
         num_tokens |-> Min(bucket_max, item.num_tokens + delta)]

\* mutant: new_val <= 0
InsufficientAtZero(new_val) == new_val <= 0

\* mutant: one token of overdraft
InsufficientOverdraft(new_val) == new_val < 0 - Unit

\* new_val < 0 of _consume_token
Insufficient(new_val) == new_val < 0

\* ------------------------------------------------------------------ lock
\* mutant: the lock is taken without a look at its state
LockNotChecked == TRUE

\* asyncio.Lock.acquire returns at once only when the lock is not held
LockFree == ~writer_lock

\* ---------------------------------------------------------- handle_request
\* handle_request passes (requester_id, resource_id) to
\* _consume_token(resource_id, requester_id, now)
OuterKey(h) == req[h].requester_id
InnerKey(h) == req[h].resource_id

Key(h) == <<OuterKey(h), InnerKey(h)>>

\* ---------------------------------------------------------------- history
\* The admits an item has allowed since _get_item created it, counted while
\* every refill of the item (an admit's or a sweep's) was made with the
\* timestamp the item already held; same = FALSE, and the count 0, from the
\* first refill with another timestamp on.  The count stops at AllowCap.
AllowCap == Max(0, bucket_max \div Unit) + 1
NewBurst == [allowed |-> 0, same |-> TRUE]
OffBurst == [allowed |-> 0, same |-> FALSE]
Touched(b, item, now) == IF b.same /\ now = item.last_access THEN b ELSE OffBurst
Decided(b, allow) ==
    IF b.same /\ allow
        THEN [b EXCEPT !.allowed = Min(AllowCap, @ + 1)]
        ELSE b

\* lines 191-203: the event is decoded and now is sampled
HandleRequest(h, rq, rs) ==
    /\ req[h].pc = "idle"
    /\ req' = [req EXCEPT ![h] = [pc |-> "call", requester_id |-> rq,
                                  resource_id |-> rs, now |-> clock,
                                  created |-> FALSE, has_capacity |-> FALSE]]
    /\ UNCHANGED <<config, resource_buckets, writer_lock, clock, cleaner, history, trace>>

\* line 117: with await self._writer_lock
AcquireLock(h) ==
    /\ req[h].pc = "call"
    /\ LockFree
    /\ writer_lock' = TRUE
    /\ req' = [req EXCEPT ![h].pc = "get"]
    /\ UNCHANGED <<config, resource_buckets, clock, cleaner, history, trace>>

\* line 118
GetItem(h) ==
    /\ req[h].pc = "get"
    /\ resource_buckets' =
           GetItemStore(resource_buckets, OuterKey(h), InnerKey(h), req[h].now)
    /\ req' = [req EXCEPT ![h].pc = "update",
                          ![h].created = ~HasItem(resource_buckets, OuterKey(h), InnerKey(h))]
    /\ burst' = IF HasItem(resource_buckets, OuterKey(h), InnerKey(h))
                    THEN burst
                    ELSE Put(burst, Key(h), NewBurst)
    /\ UNCHANGED <<config, writer_lock, clock, cleaner, admitted, trace>>

\* line 119
UpdateItem(h) ==
    /\ req[h].pc = "update"
    /\ resource_buckets' =
           [resource_buckets EXCEPT ![OuterKey(h)][InnerKey(h)] = Refill(@, req[h].now)]
    /\ req' = [req EXCEPT ![h].pc = "consume"]
    /\ burst' = [burst EXCEPT ![Key(h)] =
                    Touched(@, resource_buckets[OuterKey(h)][InnerKey(h)], req[h].now)]
    /\ UNCHANGED <<config, writer_lock, clock, cleaner, admitted, trace>>

\* mutant: the deny path returns with the lock still held
ConsumeTokenDenyKeepsLock(h) ==
    /\ req[h].pc = "consume"
    /\ LET new_val == resource_buckets[OuterKey(h)][InnerKey(h)].num_tokens - Unit
           allow == ~Insufficient(new_val)
       IN  /\ resource_buckets' =
                  IF allow
                      THEN [resource_buckets EXCEPT
                               ![OuterKey(h)][InnerKey(h)].num_tokens = new_val]
                      ELSE resource_buckets
           /\ req' = [req EXCEPT ![h] = [IdleReq EXCEPT !.pc = "respond",
                                                        !.has_capacity = allow]]
           /\ burst' = [burst EXCEPT ![Key(h)] = Decided(@, allow)]
           /\ writer_lock' = ~allow
    /\ admitted' = admitted \cup {Key(h)}
    /\ UNCHANGED <<config, clock, cleaner, trace>>

\* lines 121-126, the release of the lock on leaving the with block, and the
\* return to handle_request, where only has_capacity is still in use
ConsumeToken(h) ==
    /\ req[h].pc = "consume"
    /\ LET new_val == resource_buckets[OuterKey(h)][InnerKey(h)].num_tokens - Unit
           allow == ~Insufficient(new_val)
       IN  /\ resource_buckets' =
                  IF allow
                      THEN [resource_buckets EXCEPT
                               ![OuterKey(h)][InnerKey(h)].num_tokens = new_val]
                      ELSE resource_buckets
           /\ req' = [req EXCEPT ![h] = [IdleReq EXCEPT !.pc = "respond",
                                                        !.has_capacity = allow]]
           /\ burst' = [burst EXCEPT ![Key(h)] = Decided(@, allow)]
    /\ writer_lock' = FALSE
    /\ admitted' = admitted \cup {Key(h)}
    /\ UNCHANGED <<config, clock, cleaner, trace>>

\* lines 193-201 on a body: event['requester_id'] and event['resource_id']
\* raise KeyError on a missing key, a missing throttle_params becomes {},
\* and assert throttle_params is not None fails on null
Raised(ev) ==
    IF ev.requester_id = Absent \/ ev.resource_id = Absent THEN "KeyError"
    ELSE IF ev.throttle_params = "null" THEN "AssertionError"
    ELSE "none"

ErrorOutcomes == {"KeyError", "AssertionError"}

\* mutant: the ids are read with a default and the bucket is fetched before
\* the body is checked
RejectRequestLate(h, ev) ==
    /\ req[h].pc = "idle"
    /\ Raised(ev) \in ErrorOutcomes
    /\ req' = [req EXCEPT ![h] = [IdleReq EXCEPT !.pc = "error"]]
    /\ resource_buckets' =
           GetItemStore(resource_buckets, ev.requester_id, ev.resource_id, clock)
    /\ UNCHANGED <<config, writer_lock, clock, cleaner, history, trace>>

\* lines 191-201 on a malformed body: the exception leaves handle_request
\* before now is sampled (line 203) and before _consume_token is called;
\* which of the two exceptions it was is not kept
RejectRequest(h, ev) ==
    /\ req[h].pc = "idle"
    /\ Raised(ev) \in ErrorOutcomes
    /\ req' = [req EXCEPT ![h] = [IdleReq EXCEPT !.pc = "error"]]
    /\ UNCHANGED <<config, resource_buckets, writer_lock, clock, cleaner, history, trace>>

\* the exception reaches the web framework, which answers with an error
\* status; the coroutine ends
Fail(h) ==
    /\ req[h].pc = "error"
    /\ req' = [req EXCEPT ![h] = IdleReq]
    /\ UNCHANGED <<config, resource_buckets, writer_lock, clock, cleaner, history, trace>>

\* lines 210-216: the response is sent and the coroutine ends
Respond(h) ==
    /\ req[h].pc = "respond"
    /\ req' = [req EXCEPT ![h] = IdleReq]
    /\ UNCHANGED <<config, resource_buckets, writer_lock, clock, cleaner, history, trace>>

\* ---------------------------------------------------------- periodic_clean
\* lines 137-140: the sleep ends and now is sampled
CleanWake ==
    /\ cleaner.pc = "sleep"
    /\ cleaner' = [pc |-> "lock", now |-> clock]
    /\ UNCHANGED <<config, resource_buckets, writer_lock, clock, req, history, trace>>

\* line 141
CleanAcquire ==
    /\ cleaner.pc = "lock"
    /\ LockFree
    /\ writer_lock' = TRUE
    /\ cleaner' = [cleaner EXCEPT !.pc = "sweep"]
    /\ UNCHANGED <<config, resource_buckets, clock, req, history, trace>>

\* mutant: > for >=
MarkedAbove(item) == item.num_tokens > bucket_max

\* mutant: <= for >=
MarkedBelow(item) == item.num_tokens <= bucket_max

\* line 147: the mark test on a refilled item
Marked(item) == item.num_tokens >= bucket_max

\* lines 143-153 on one inner dict: every item is refilled, the marked are popped
SweepBucket(bucket, now) ==
    LET kept == {r \in DOMAIN bucket : ~Marked(Refill(bucket[r], now))}
    IN  [r \in kept |-> Refill(bucket[r], now)]

\* mutant: an inner dict left empty is dropped from the store
SweepStoreDropsEmpty(buckets, now) ==
    LET left == {o \in DOMAIN buckets : SweepBucket(buckets[o], now) # << >>}
    IN  [o \in left |-> SweepBucket(buckets[o], now)]

\* lines 142-153 on the whole store: no outer key is removed
SweepStore(buckets, now) == [o \in DOMAIN buckets |-> SweepBucket(buckets[o], now)]

\* mutant: the task ends after its first sweep (no while True)
CleanSweepOnce ==
    /\ cleaner.pc = "sweep"
    /\ LET after == SweepStore(resource_buckets, cleaner.now)
       IN  /\ resource_buckets' = after
           /\ cleaner' = [pc |-> "done", now |-> 0]
           /\ burst' = [k \in Keys(after) |->
                           Touched(burst[k], resource_buckets[k[1]][k[2]], cleaner.now)]
    /\ writer_lock' = FALSE
    /\ UNCHANGED <<config, clock, req, admitted, trace>>

\* lines 142-155: the mark-and-sweep loop, the release of the lock, and the
\* task sleeps again (line 137); swept is only printed
CleanSweep ==
    /\ cleaner.pc = "sweep"
    /\ LET after == SweepStore(resource_buckets, cleaner.now)
       IN  /\ resource_buckets' = after
           /\ cleaner' = SleepingCleaner
           /\ burst' = [k \in Keys(after) |->
                           Touched(burst[k], resource_buckets[k[1]][k[2]], cleaner.now)]
    /\ writer_lock' = FALSE
    /\ UNCHANGED <<config, clock, req, admitted, trace>>

\* ------------------------------------------------------------------ clock
Tick ==
    /\ clock < MaxTime
    /\ clock' = clock + 1
    /\ UNCHANGED <<config, resource_buckets, writer_lock, req, cleaner, history, trace>>

\* ------------------------------------------------------------------ specs
Next ==
    \/ \E h \in Handlers, rq \in Requesters, rs \in Resources : HandleRequest(h, rq, rs)
    \/ \E h \in Handlers, ev \in Events : RejectRequest(h, ev)
    \/ \E h \in Handlers : Fail(h)
    \/ \E h \in Handlers : AcquireLock(h)
    \/ \E h \in Handlers : GetItem(h)
    \/ \E h \in Handlers : UpdateItem(h)
    \/ \E h \in Handlers : ConsumeToken(h)
    \/ \E h \in Handlers : Respond(h)
    \/ CleanWake
    \/ CleanAcquire
    \/ CleanSweep
    \/ Tick

Spec == Init /\ [][Next]_vars

\* the same Throttler built from any configuration file
SpecAnyConfig == InitAnyConfig /\ [][Next]_vars

\* --------------------------------------------------------- the event loop
\* The scheduling of asyncio.  A coroutine runs from one await that
\* suspends it to the next, and nothing else runs in between.
\* "with await self._writer_lock" suspends only when the lock is held, and
\* the guarded sections hold no await: so handle_request runs from the
\* return of request.json() (line 191) through _consume_token to the
\* response, and _clean_helper from the end of its sleep (line 137) through
\* the sweep back into the sleep, each without a break, with the now it has
\* just sampled.

\* _consume_token as one call: _get_item, _update_item and the decision
ConsumeTokenResult(buckets, o, i, now) ==
    LET got == GetItemStore(buckets, o, i, now)
        item == Refill(got[o][i], now)
        new_val == item.num_tokens - Unit
        allow == ~Insufficient(new_val)
    IN  [buckets |-> [got EXCEPT ![o][i] =
                         IF allow THEN [item EXCEPT !.num_tokens = new_val] ELSE item],
         has_capacity |-> allow]

\* the count of grants stops here
GrantCap == Max(0, (bucket_max + fill_rate * MaxTime) \div Unit) + 1

\* lines 191-208 and 117-126 on a well-formed body; the requester id is
\* the outer key (see OuterKey).  shadow is given the same call.
LoopAdmit(h, rq, rs) ==
    /\ req[h].pc = "idle"
    /\ LockFree
    /\ LET now == clock
           res == ConsumeTokenResult(resource_buckets, rq, rs, now)
       IN  /\ resource_buckets' = res.buckets
           /\ req' = [req EXCEPT ![h] = [IdleReq EXCEPT !.pc = "respond",
                                                        !.has_capacity = res.has_capacity]]
           /\ grants' = IF res.has_capacity
                            THEN [grants EXCEPT ![<<rq, rs>>][now] = Min(GrantCap, @ + 1)]
                            ELSE grants
           /\ shadow' = ConsumeTokenResult(shadow, rq, rs, now).buckets
    /\ UNCHANGED <<config, writer_lock, clock, cleaner, history, evicted>>

\* mutant: now is sampled before the sleep, one tick before the sweep
LoopSweepStaleNow ==
    /\ cleaner.pc = "sleep"
    /\ LockFree
    /\ resource_buckets' = SweepStore(resource_buckets, Max(0, clock - 1))
    /\ evicted' = evicted \cup (Keys(resource_buckets) \ Keys(resource_buckets'))
    /\ UNCHANGED <<config, writer_lock, clock, req, cleaner, history, grants, shadow>>

\* lines 137-155: the sleep ends, now is sampled, the store is swept and
\* the task sleeps again
LoopSweep ==
    /\ cleaner.pc = "sleep"
    /\ LockFree
    /\ resource_buckets' = SweepStore(resource_buckets, clock)
    /\ evicted' = evicted \cup (Keys(resource_buckets) \ Keys(resource_buckets'))
    /\ UNCHANGED <<config, writer_lock, clock, req, cleaner, history, grants, shadow>>

NextLoop ==
    \/ \E h \in Handlers, rq \in Requesters, rs \in Resources : LoopAdmit(h, rq, rs)
    \/ \E h \in Handlers, ev \in Events : RejectRequest(h, ev)
    \/ \E h \in Handlers : Fail(h)
    \/ \E h \in Handlers : Respond(h)
    \/ LoopSweep
    \/ Tick

SpecLoop == Init /\ [][NextLoop]_vars

\* Scheduling a run of the server provides.  A coroutine that can take its
\* next step takes it: the statements of a guarded section hold no await,
\* the event loop resumes every ready coroutine, the sleep of the cleaner
\* ends and the wall clock moves on.  asyncio.Lock wakes its waiters in the
\* order they arrived, so a coroutine that finds the lock free again and
\* again gets it.  No request has to arrive.
Fairness ==
    /\ \A h \in Handlers :
          /\ SF_vars(AcquireLock(h))
          /\ WF_vars(GetItem(h))
          /\ WF_vars(UpdateItem(h))
          /\ WF_vars(ConsumeToken(h))
          /\ WF_vars(Respond(h))
          /\ WF_vars(Fail(h))
    /\ WF_vars(CleanWake)
    /\ SF_vars(CleanAcquire)
    /\ WF_vars(CleanSweep)
    /\ WF_vars(Tick)

\* time.time() counts from the epoch: the server may as well start one tick
\* before the end of the modelled range of the clock
InitLate ==
    /\ \E c \in Configs : Construct(c[1], c[2])
    /\ clock = MaxTime - 1
    /\ req = [h \in Handlers |-> IdleReq]
    /\ cleaner = SleepingCleaner
    /\ burst = << >>
    /\ admitted = {}
    /\ grants = NoGrants
    /\ shadow = << >>
    /\ evicted = {}

SpecFair == InitLate /\ [][Next]_vars /\ Fairness

\* ------------------------------------------------------------------ claims
Item(k) == resource_buckets[k[1]][k[2]]
Tokens(k) == Item(k).num_tokens

\* the steps of the guarded sections, told by the coroutine's position
IsUpdateStep(h) == req[h].pc = "update" /\ req'[h].pc = "consume"
IsConsumeStep(h) == req[h].pc = "consume" /\ req'[h].pc = "respond"
IsGetStep(h) == req[h].pc = "get" /\ req'[h].pc = "update"
IsSweepStep == cleaner.pc = "sweep" /\ cleaner'.pc = "sleep"

\* the token count a refill to now gives, written out by cases
RefilledTokens(item, now) ==
    IF now <= item.last_access \/ fill_rate <= 0
        THEN Min(bucket_max, item.num_tokens)
        ELSE IF item.num_tokens + fill_rate * (now - item.last_access) >= bucket_max
                 THEN bucket_max
                 ELSE item.num_tokens + fill_rate * (now - item.last_access)

\* C1: in every reachable state of the valid configurations, whatever the
\* order of the timestamps of admits and sweeps, every item of the store
\* holds 0 <= num_tokens <= bucket_max.
C1_TokensInRange ==
    \A k \in Keys(resource_buckets) : 0 <= Tokens(k) /\ Tokens(k) <= bucket_max

\* an admit has refilled an item it found in the store up to bucket_max,
\* while another item is empty
C1_Witness ==
    \E h \in Handlers :
        /\ req[h].pc = "consume"
        /\ ~req[h].created
        /\ Tokens(Key(h)) = bucket_max
        /\ \E k \in Keys(resource_buckets) : k # Key(h) /\ Tokens(k) = 0

\* C2: _consume_token returns True exactly when the refilled token count is
\* at least one token; it then stores that count minus one token, and on
\* False it stores the refilled count as it is.
C2_AdmitDecision ==
    [][\A h \in Handlers :
          IsConsumeStep(h) =>
              LET k == Key(h)
                  t == Tokens(k)
              IN  /\ req'[h].has_capacity = (t >= Unit)
                  /\ resource_buckets'[k[1]][k[2]].num_tokens =
                         IF t >= Unit THEN t - Unit ELSE t]_vars

\* a request was denied on an item holding half a token
C2_Witness ==
    /\ \E h \in Handlers : req[h].pc = "respond" /\ ~req[h].has_capacity
    /\ \E k \in Keys(resource_buckets) : 0 < Tokens(k) /\ Tokens(k) < Unit
    /\ Cardinality(Keys(resource_buckets)) = 1

\* C3: at most one guarded section is in progress at any time, and the lock
\* is held exactly while one is.
InGuard(h) == req[h].pc \in {"get", "update", "consume"}
GuardedSections ==
    Cardinality({h \in Handlers : InGuard(h)}) + (IF cleaner.pc = "sweep" THEN 1 ELSE 0)
C3_MutualExclusion ==
    /\ GuardedSections <= 1
    /\ writer_lock = (GuardedSections = 1)

\* an admit is between its refill and its consume while an admit for the
\* same key and a sweep both wait for the lock
C3_Witness ==
    \E h, h2 \in Handlers :
        /\ req[h].pc = "consume"
        /\ req[h2].pc = "call"
        /\ Key(h2) = Key(h)
        /\ cleaner.pc = "lock"

\* C4: every key created has exactly one item, and while all the admits of
\* an item carry the timestamp of its creation the item holds bucket_start
\* minus one token per admit allowed: no admit's update is lost.
C4_OneBucketNoLostUpdate ==
    /\ DOMAIN burst = Keys(resource_buckets)
    /\ \A k \in Keys(resource_buckets) :
           burst[k].same => Tokens(k) = bucket_start - Unit * burst[k].allowed

\* two requests for one new key were in flight together, both were allowed,
\* and the item they shared holds two tokens less
C4_Witness ==
    /\ \A h \in Handlers : req[h].pc = "respond" /\ req[h].has_capacity
    /\ \E k \in Keys(resource_buckets) :
           /\ Keys(resource_buckets) = {k}
           /\ burst[k].same
           /\ burst[k].allowed = 2
           /\ Tokens(k) = bucket_start - 2 * Unit

\* C5: a sweep at time now removes every item whose token count refilled to
\* now is bucket_max, in particular every item idle for at least
\* (bucket_max - num_tokens) / fill_rate, and keeps, refilled, every item
\* below bucket_max; no other step removes an item.
C5_SweepRemovesFull ==
    [][\A k \in Keys(resource_buckets) :
          LET r == RefilledTokens(Item(k), cleaner.now)
              idle == cleaner.now - Item(k).last_access
          IN  /\ IsSweepStep /\ r = bucket_max
                  => k \notin Keys(resource_buckets')
              /\ IsSweepStep /\ fill_rate > 0
                             /\ fill_rate * idle >= bucket_max - Tokens(k)
                  => k \notin Keys(resource_buckets')
              /\ IsSweepStep /\ r < bucket_max
                  => /\ k \in Keys(resource_buckets')
                     /\ resource_buckets'[k[1]][k[2]] =
                            [last_access |-> cleaner.now, num_tokens |-> r]
              /\ k \notin Keys(resource_buckets')
                  => IsSweepStep /\ r = bucket_max]_vars

\* a sweep is about to run over an empty item that has been idle long enough
\* to refill, and over an item that has not
C5_Witness ==
    /\ cleaner.pc = "sweep"
    /\ \E k1, k2 \in Keys(resource_buckets) :
           /\ Tokens(k1) = 0
           /\ RefilledTokens(Item(k1), cleaner.now) = bucket_max
           /\ RefilledTokens(Item(k2), cleaner.now) < bucket_max

C7_BurstAllowsFirstM ==
    [][\A h \in Handlers :
          /\ IsConsumeStep(h)
          /\ burst[Key(h)].same
          /\ bucket_max % Unit = 0
          /\ bucket_start = bucket_max
          => req'[h].has_capacity = (burst[Key(h)].allowed < bucket_max \div Unit)]_vars

\* fill_rate of one token per tick, two tokens: at time 0 the key's item has
\* allowed two admits and a third call is being denied
C7_Witness ==
    /\ fill_rate = Unit /\ bucket_max = 2 * Unit /\ clock = 0
    /\ \E h \in Handlers :
           /\ req[h].pc = "consume"
           /\ burst[Key(h)].same
           /\ burst[Key(h)].allowed = 2
           /\ Tokens(Key(h)) < Unit

\* C8: with fill_rate = 0 and bucket_max = bucket_start = one token, the
\* first admit decided for a key is allowed and every later one is denied,
\* and no item is ever removed from the store.
C8_OneTokenForever ==
    [][fill_rate = 0 /\ bucket_max = Unit /\ bucket_start = Unit =>
          /\ \A h \in Handlers :
                 IsConsumeStep(h) => req'[h].has_capacity = (Key(h) \notin admitted)
          /\ Keys(resource_buckets) \subseteq Keys(resource_buckets')]_vars

\* no refill: a key admitted before is being denied at the last tick, after
\* its item was touched again later than its creation
C8_Witness ==
    /\ fill_rate = 0 /\ bucket_max = Unit
    /\ \E h \in Handlers :
           /\ req[h].pc = "consume"
           /\ Key(h) \in admitted
           /\ req[h].now >= 2
           /\ Tokens(Key(h)) = 0
    /\ cleaner.pc = "lock" /\ cleaner.now >= 1

\* C9: _update_item at time now stores last_access = now and
\* num_tokens = min(bucket_max, num_tokens + max(0, fill_rate * elapsed)),
\* in an admit and, for the items it keeps, in a sweep.
C9_RefillFormula ==
    [][/\ \A h \in Handlers :
              IsUpdateStep(h) =>
                  resource_buckets'[OuterKey(h)][InnerKey(h)] =
                      [last_access |-> req[h].now,
                       num_tokens |-> RefilledTokens(Item(Key(h)), req[h].now)]
       /\ IsSweepStep =>
              \A k \in Keys(resource_buckets') :
                  resource_buckets'[k[1]][k[2]] =
                      [last_access |-> cleaner.now,
                       num_tokens |-> RefilledTokens(Item(k), cleaner.now)]]_vars

\* one token per tick, two tokens: an item holding one token, last touched at
\* time 0, is about to be refilled by an admit at time 2
C9_Witness ==
    /\ fill_rate = Unit /\ bucket_max = 2 * Unit
    /\ \E h \in Handlers :
           /\ req[h].pc = "update"
           /\ req[h].now = 2
           /\ Item(Key(h)) = [last_access |-> 0, num_tokens |-> Unit]

\* C10: a Throttler whose parameters are outside bucket_max > 0,
\* fill_rate >= 0, 0 <= bucket_start <= bucket_max is never constructed, so
\* none ever decides on a request.
C10_InvalidConfigNeverServes ==
    (\E h \in Handlers : req[h].pc = "respond") =>
        /\ bucket_max > 0
        /\ fill_rate >= 0
        /\ 0 <= bucket_start /\ bucket_start <= bucket_max


\* C11: a request whose body lacks requester_id or resource_id, or carries
\* a null throttle_params, ends in an error outcome and in nothing else: the
\* step that raises creates no bucket, changes no token count and does not
\* touch the lock, and from the error the coroutine can only end; it never
\* becomes an allow or deny decision.
C11_MalformedRejected ==
    [][\A h \in Handlers :
          /\ (req[h].pc = "idle" /\ req'[h].pc = "error") =>
                 /\ resource_buckets' = resource_buckets
                 /\ writer_lock' = writer_lock
                 /\ admitted' = admitted
          /\ (req[h].pc = "error" /\ req'[h] # req[h]) =>
                 /\ req'[h] = IdleReq
                 /\ resource_buckets' = resource_buckets
                 /\ writer_lock' = writer_lock
                 /\ admitted' = admitted]_vars

\* a request has failed while buckets are held and another request is inside
\* its guarded section
C11_Witness ==
    /\ req["h1"].pc = "error"
    /\ req["h2"].pc = "update"
    /\ Keys(resource_buckets) # {}


\* C12: under the scheduling of Fairness, every admit that has been called
\* (well-formed ids, now sampled) comes to its decision, a boolean handed to
\* handle_request; a cleaner waiting for the lock gets to sleep again; and
\* a held lock is released.  No admit or sweep waits forever for the guard.
C12_AdmitCompletes ==
    /\ \A h \in Handlers : (req[h].pc = "call") ~> (req[h].pc = "respond")
    /\ (cleaner.pc = "lock") ~> (cleaner.pc = "sleep")
    /\ writer_lock ~> ~writer_lock

\* both requests and the cleaner wait for the lock at once, and one of the
\* requests has come through
C12_Witness ==
    /\ req["h1"].pc = "respond"
    /\ req["h2"].pc = "call"
    /\ cleaner.pc = "lock"


\* C13: a refill whose now is earlier than the last_access the bucket holds
\* leaves the token count as it was, where the configuration is valid: in
\* an admit the count after the refill step is the count before it, and a
\* sweep keeps such a bucket with its count, or pops it when that count is
\* the maximum already.
C13_EarlierNowKeepsTokens ==
    [][/\ \A h \in Handlers :
            (IsUpdateStep(h) /\ req[h].now < Item(Key(h)).last_access) =>
                resource_buckets'[OuterKey(h)][InnerKey(h)].num_tokens = Tokens(Key(h))
       /\ IsSweepStep =>
            \A k \in Keys(resource_buckets) :
                cleaner.now < Item(k).last_access =>
                    IF k \in Keys(resource_buckets')
                        THEN resource_buckets'[k[1]][k[2]].num_tokens = Tokens(k)
                        ELSE Tokens(k) = bucket_max]_vars

\* a request is about to refill a bucket that is not full, at a positive
\* fill rate, with a now earlier than the bucket's last_access, and the
\* cleaner waits for the lock with such a now as well
C13_Witness ==
    \E h \in Handlers :
        /\ req[h].pc = "update"
        /\ fill_rate > 0
        /\ req[h].now < Item(Key(h)).last_access
        /\ Tokens(Key(h)) < bucket_max
        /\ cleaner.pc = "lock"
        /\ cleaner.now < Item(Key(h)).last_access


\* C14: a step of the request handling key K changes nothing but K's own
\* bucket: every other bucket keeps its tokens and its last_access, no
\* bucket of another key appears, and no bucket at all, K's included, goes
\* away.  Whenever a bucket leaves the store, the step is a sweep.
C14_AdmitFrame ==
    [][\/ resource_buckets' = resource_buckets
       \/ LET before == Keys(resource_buckets)
              after == Keys(resource_buckets')
          IN  /\ \A h \in Handlers :
                    req'[h] # req[h] =>
                        /\ \A k \in before \ {Key(h)} :
                               /\ k \in after
                               /\ resource_buckets'[k[1]][k[2]] = Item(k)
                        /\ after \subseteq before \cup {Key(h)}
                        /\ before \subseteq after
              /\ ~(before \subseteq after) => IsSweepStep]_vars

\* _get_item has just created K's bucket while the bucket of another key,
\* no longer full, is in the store
C14_Witness ==
    \E h \in Handlers :
        /\ req[h].pc = "update"
        /\ req[h].created
        /\ \E k \in Keys(resource_buckets) \ {Key(h)} : Tokens(k) < bucket_max


\* C15: while the guarded section of a request with requester_id = r and
\* resource_id = s works on its bucket (after _get_item, up to the
\* decision), the bucket is in the store under the outer key s, the
\* resource id, and the inner key r, the requester id.
C15_KeyedByResourceThenRequester ==
    \A h \in Handlers :
        req[h].pc \in {"update", "consume"} =>
            HasItem(resource_buckets, req[h].resource_id, req[h].requester_id)


\* the bucket of k is in the store and the clock has room left to fill it:
\* a refill at the end of the modelled range of the clock makes it full
WillFill(k) ==
    /\ k \in Keys(resource_buckets)
    /\ fill_rate > 0
    /\ Tokens(k) + fill_rate * (MaxTime - Item(k).last_access) >= bucket_max

\* an admit for k has been called and has not decided yet
AdmitInProgress(k) ==
    \E h \in Handlers : req[h].pc \in {"call", "get", "update", "consume"} /\ Key(h) = k

\* C16: under the scheduling of Fairness the cleaner sweeps again and again,
\* forever; and with a positive fill rate, a bucket the clock has room left
\* to fill is in the end removed from the store, unless a further admit for
\* its key comes first.
C16_SweepsRecurAndEvict ==
    /\ []<>(cleaner.pc = "sweep")
    /\ \A k \in AllKeys : WillFill(k) ~> (k \notin Keys(resource_buckets) \/ AdmitInProgress(k))

\* a bucket that was used, at a positive fill rate, has been swept away and
\* the cleaner sleeps again
C16_Witness ==
    /\ fill_rate > 0
    /\ cleaner.pc = "sleep"
    /\ \E k \in admitted : k \notin Keys(resource_buckets)


\* the admits allowed for a key with timestamps in t0..t1
RECURSIVE GrantsIn(_, _, _)
GrantsIn(g, t0, t1) == IF t0 > t1 THEN 0 ELSE g[t0] + GrantsIn(g, t0 + 1, t1)

\* C17: in the runs of the event loop, where the admits and the sweeps come
\* with non-decreasing timestamps, the tokens granted to a key by admits
\* with timestamps in an interval t0..t1 never exceed
\* bucket_max + fill_rate * (t1 - t0), for every key and every interval,
\* whether or not the key's bucket was swept away and created again.
C17_RateBound ==
    \A k \in AllKeys : \A t0 \in 0..MaxTime : \A t1 \in t0..MaxTime :
        Unit * GrantsIn(grants[k], t0, t1) <= bucket_max + fill_rate * (t1 - t0)

\* the bound is met over an interval of more than one timestamp, at a
\* positive fill rate, by a key whose bucket was swept away and is in the
\* store again
C17_Witness ==
    \E k \in AllKeys : \E t0 \in 0..MaxTime : \E t1 \in (t0 + 1)..MaxTime :
        /\ fill_rate > 0
        /\ grants[k][t0] > 0
        /\ grants[k][t1] > 0
        /\ Unit * GrantsIn(grants[k], t0, t1) = bucket_max + fill_rate * (t1 - t0)
        /\ k \in evicted
        /\ k \in Keys(resource_buckets)


\* C18: in the runs of the event loop, with sweeps at any point between the
\* admits, every admit gets the decision that the same call gets from a
\* Throttler that was given the same admits and never swept (shadow), and
\* leaves the same token count in the key's bucket as that call leaves
\* there.
C18_SweepsTransparent ==
    [][\A h \in Handlers, rq \in Requesters, rs \in Resources :
          LoopAdmit(h, rq, rs) =>
              /\ req'[h].has_capacity =
                     ConsumeTokenResult(shadow, rq, rs, clock).has_capacity
              /\ resource_buckets'[rq][rs].num_tokens = shadow'[rq][rs].num_tokens]_vars

\* a bucket was swept away and created again, and it is empty now: after the
\* sweep, admits for its key were allowed until none was left
C18_Witness ==
    \E k \in evicted :
        /\ k \in Keys(resource_buckets)
        /\ Tokens(k) < Unit
        /\ shadow[k[1]][k[2]].num_tokens = Tokens(k)
        /\ \E h \in Handlers : req[h].pc = "respond" /\ ~req[h].has_capacity


\* C19: in the runs of the event loop, where now is sampled and the guarded
\* section is run without a break, and with a clock that never goes back,
\* no bucket holds a last_access later than the clock, so every refill is
\* made with now >= last_access; and the last_access of a bucket never
\* decreases while the bucket is in the store.
C19_LastAccessNeverDecreases ==
    [][/\ \A k \in Keys(resource_buckets) : Item(k).last_access <= clock
       /\ \A k \in Keys(resource_buckets) \cap Keys(resource_buckets') :
              resource_buckets'[k[1]][k[2]].last_access >= Item(k).last_access]_vars

\* a bucket that was never swept away holds a later last_access than the
\* one its last admit gave it: a sweep has refilled it and kept it
C19_Witness ==
    \E k \in Keys(resource_buckets) \ evicted :
        /\ shadow[k[1]][k[2]].last_access < Item(k).last_access
        /\ Tokens(k) < bucket_max


\* C20: no step takes a first-level key out of the store, and a sweep
\* leaves the set of first-level keys exactly as it was, removing entries
\* of the inner maps only; so the first-level key of every key an admit has
\* decided on is in the store for good, with an empty inner map once its
\* buckets are swept away.
C20_OuterKeysNeverShrink ==
    [][/\ DOMAIN resource_buckets \subseteq DOMAIN resource_buckets'
       /\ IsSweepStep => DOMAIN resource_buckets' = DOMAIN resource_buckets
       /\ \A k \in admitted' : HasOuter(resource_buckets', k[1])]_vars

\* a sweep has removed every bucket and the store holds an empty inner map
\* for each of the two first-level keys seen
C20_Witness ==
    /\ cleaner.pc = "sleep"
    /\ Cardinality(admitted) = 2
    /\ Cardinality(DOMAIN resource_buckets) = 2
    /\ \A o \in DOMAIN resource_buckets : resource_buckets[o] = << >>

=============================================================================
